---------------------------- MODULE Spec2Model ----------------------------
(***************************************************************************)
(* A model of octopost's time-series assembly: the discovery of time       *)
(* directories (parsing.list_time_dirs), the tabular reader                *)
(* (parsing.parse_of), the merge of the time windows and the freshness     *)
(* cache (reader.OpenFOAMpostProcessing), the per-quantity customize       *)
(* steps, and parsing.filter_time_and_columns.                             *)
(*                                                                         *)
(* Conventions.                                                            *)
(*  - A directory name is a sequence of one-character strings.             *)
(*  - A cell of a table is a sequence: <<>> is NaN, <<n>> the number n,    *)
(*    <<n, k>> the number n/k.                                             *)
(*  - Python's None is <<>> where an optional list or number is expected   *)
(*    (usecols, tmin, tmax, time_start, time_end); a given number t is     *)
(*    <<t>>.                                                               *)
(*  - A DataFrame is a record [cols, idxname, index, rows]: the column     *)
(*    names in order, the name of the index ("" for a RangeIndex), the     *)
(*    index labels, and one function (column name -> cell) per row.        *)
(***************************************************************************)
EXTENDS Integers, Sequences, FiniteSets, TLC

VARIABLES
    entries,      \* the names found in base_dir (directory listing)
    l,            \* list_time_dirs: what the last call returned
    tmp_data,     \* combine_oftime_files: the tables of the windows, oldest first
    merged,       \* combine_oftime_files: self.data after the merge
    files,        \* per time directory: its data file (rows, st_mtime)
    width,        \* the number of columns the solver writes per line
    pc,           \* the reader: "new", "ready" (constructed), "failed" (__init__ raised)
    kind,         \* the reader class
    tmin,         \* self.tmin
    tmax,         \* self.tmax
    mtime,        \* self.mtime
    up_to_date,   \* self.up_to_date
    data,         \* self.data
    names,        \* self.names
    usecols,      \* self.usecols
    SORT_ORDER,   \* self.SORT_ORDER
    err,          \* the exception the last call raised, "none" when it returned
    last,         \* what the last call did (op, windows found, files parsed,
                  \* runs of the base __init__, ...)
    quiet,        \* the last call returned and no file changed since
    unfiltered,   \* self.data on entry to the last time_range
    df,           \* filter_time_and_columns: its argument df
    time_start,   \* filter_time_and_columns: its argument time_start
    time_end,     \* filter_time_and_columns: its argument time_end
    data_subset,  \* filter_time_and_columns: its argument data_subset
    filtered      \* filter_time_and_columns: what it returned

(***************************************************************************)
(* Bounds of the model.                                                    *)
(***************************************************************************)
MaxNameLen == 2
MaxEntries == 2
MaxTime == 4
MaxRows == 2
MaxWindows == 2
MaxMtime == 2

(***************************************************************************)
(* Generic helpers.                                                        *)
(***************************************************************************)
Range(s) == {s[i] : i \in DOMAIN s}

None == <<>>

Last(s) == s[Len(s)]

RECURSIVE Pow10(_)
Pow10(n) == IF n = 0 THEN 1 ELSE 10 * Pow10(n - 1)

(***************************************************************************)
(* Directory names and Python's float().                                   *)
(***************************************************************************)
Digits == {"0", "1", "2", "3", "4", "5", "6", "7", "8", "9"}

DigitVal(c) ==
    CASE c = "0" -> 0 [] c = "1" -> 1 [] c = "2" -> 2 [] c = "3" -> 3
      [] c = "4" -> 4 [] c = "5" -> 5 [] c = "6" -> 6 [] c = "7" -> 7
      [] c = "8" -> 8 [] c = "9" -> 9

\* The characters directory names are drawn from: two digits, the decimal
\* point and a letter.  No exponent, sign, underscore or blank occurs, so a
\* name is a float literal exactly when it is digits with at most one point.
Alphabet == {"1", "2", ".", "o"}

\* ASCII order of the characters, used for the lexicographic order of names.
CharCode(c) == IF c = "." THEN 46 ELSE IF c \in Digits THEN 48 + DigitVal(c) ELSE 111

AllNames == UNION {[1..n -> Alphabet] : n \in 1..MaxNameLen}

\* glob('[0-9]*'): the first character is a digit, the rest is arbitrary.
GlobMatch(name) == Len(name) >= 1 /\ name[1] \in Digits

DotPositions(name) == {i \in DOMAIN name : name[i] = "."}

\* float(name) succeeds (no ValueError).
IsFloat(name) ==
    /\ \A i \in DOMAIN name : name[i] \in Digits \cup {"."}
    /\ Cardinality(DotPositions(name)) <= 1
    /\ \E i \in DOMAIN name : name[i] \in Digits

\* The digits of a name, the point dropped.
RECURSIVE Mantissa(_)
Mantissa(name) ==
    IF name = <<>> THEN 0
    ELSE IF Last(name) = "." THEN Mantissa(SubSeq(name, 1, Len(name) - 1))
    ELSE 10 * Mantissa(SubSeq(name, 1, Len(name) - 1)) + DigitVal(Last(name))

\* Number of digits after the point.
FracDigits(name) ==
    IF DotPositions(name) = {} THEN 0
    ELSE Len(name) - (CHOOSE i \in DotPositions(name) : TRUE)

\* float(a) <= float(b) for two float literals: a = Mantissa / 10^FracDigits.
FloatLeq(a, b) ==
    Mantissa(a) * Pow10(FracDigits(b)) <= Mantissa(b) * Pow10(FracDigits(a))

FloatLess(a, b) == ~FloatLeq(b, a)

\* a <= b in the lexicographic (string) order.
RECURSIVE LexLeq(_, _)
LexLeq(a, b) ==
    IF a = <<>> THEN TRUE
    ELSE IF b = <<>> THEN FALSE
    ELSE IF CharCode(a[1]) # CharCode(b[1]) THEN CharCode(a[1]) < CharCode(b[1])
    ELSE LexLeq(Tail(a), Tail(b))

\* All orders of the finite set S.
Orderings(S) ==
    {s \in [1..Cardinality(S) -> S] : \A i, j \in DOMAIN s : i # j => s[i] # s[j]}

\* sorted(names) without a key: the mutant of list_time_dirs that orders the
\* names as strings.
list_time_dirs_lex(listing) ==
    LET m == {x \in listing : GlobMatch(x)}
    IN  IF \E x \in m : ~IsFloat(x)
        THEN {[err |-> "ValueError", paths |-> <<>>]}
        ELSE {[err |-> "none", paths |-> s] :
                s \in {o \in Orderings(m) :
                         \A i, j \in DOMAIN o : i < j => LexLeq(o[i], o[j])}}

\* list_time_dirs: the outcomes of one call on a directory holding the names `listing`.
\* sorted(..., key=float) raises ValueError when a matched name is no float
\* literal.  The sort is stable and glob's order is the file system's, so
\* names of equal value may come in either order: every order that is
\* ascending by value is an outcome.
list_time_dirs(listing) ==
    LET m == {x \in listing : GlobMatch(x)}
    IN  IF \E x \in m : ~IsFloat(x)
        THEN {[err |-> "ValueError", paths |-> <<>>]}
        ELSE {[err |-> "none", paths |-> s] :
                s \in {o \in Orderings(m) :
                         \A i, j \in DOMAIN o : i < j => FloatLeq(o[i], o[j])}}

(***************************************************************************)
(* Cells and DataFrames.                                                   *)
(***************************************************************************)
NaN == <<>>

Num(n) == <<n>>

EmptyFrame == [cols |-> <<>>, idxname |-> "", index |-> <<>>, rows |-> <<>>]

NRows(f) == Len(f.rows)

\* DataFrame.empty: an axis of length 0.
IsEmpty(f) == Len(f.rows) = 0 \/ Len(f.cols) = 0

HasCol(f, c) == c \in Range(f.cols)

\* The rows at the positions `keep` (ascending), with their index labels:
\* boolean-mask selection df[mask].
SelectRows(f, keep) ==
    LET pos == SelectSeq([i \in 1..NRows(f) |-> i], LAMBDA i : i \in keep)
    IN  [f EXCEPT !.index = [k \in 1..Len(pos) |-> f.index[pos[k]]],
                  !.rows  = [k \in 1..Len(pos) |-> f.rows[pos[k]]]]

\* df.set_index(c): column c (whole numbers) becomes the index.
set_index(f, c) ==
    [cols    |-> SelectSeq(f.cols, LAMBDA x : x # c),
     idxname |-> c,
     index   |-> [i \in 1..NRows(f) |-> f.rows[i][c][1]],
     rows    |-> [i \in 1..NRows(f) |->
                    [x \in Range(f.cols) \ {c} |-> f.rows[i][x]]]]

\* df.reset_index(): the index becomes the first column, a RangeIndex
\* replaces it.
reset_index(f) ==
    [cols    |-> <<f.idxname>> \o f.cols,
     idxname |-> "",
     index   |-> [i \in 1..NRows(f) |-> i - 1],
     rows    |-> [i \in 1..NRows(f) |->
                    [x \in Range(f.cols) \cup {f.idxname} |->
                        IF x = f.idxname THEN Num(f.index[i]) ELSE f.rows[i][x]]]]

\* The values of column c, in row order.
Column(f, c) == [i \in 1..NRows(f) |-> f.rows[i][c]]

\* The times of a table that carries time as a column.
Times(f) == [i \in 1..NRows(f) |-> f.rows[i]["time"][1]]

StrictlyIncreasing(s) == \A i, j \in DOMAIN s : i < j => s[i] < s[j]

NonDecreasing(s) == \A i, j \in DOMAIN s : i < j => s[i] <= s[j]

RECURSIVE SortedSeq(_)
SortedSeq(S) ==
    IF S = {} THEN <<>>
    ELSE LET m == CHOOSE x \in S : \A y \in S : x <= y
         IN  <<m>> \o SortedSeq(S \ {m})

RECURSIVE Flatten(_)
Flatten(ss) == IF ss = <<>> THEN <<>> ELSE Head(ss) \o Flatten(Tail(ss))

\* x.combine_first(y) on one row each: x's cell unless it is NaN.
CombineRow(cols, xr, yr) ==
    [c \in Range(cols) |-> IF xr[c] = NaN THEN yr[c] ELSE xr[c]]

\* pd.concat([y, x]): y's rows followed by x's rows, nothing dropped.  The
\* mutant of CombineFirst that stitches windows by plain concatenation.
ConcatFrames(x, y) ==
    [x EXCEPT !.index = y.index \o x.index, !.rows = y.rows \o x.rows]

\* The labels of the outer join of two indexes, ascending.
JoinKeys(x, y) == SortedSeq(Range(x.index) \cup Range(y.index))

\* The positions of the rows of f that carry the label k.
RowsAt(f, k) == SelectSeq([i \in 1..NRows(f) |-> i], LAMBDA i : f.index[i] = k)

\* The rows of the join for the label k, held by x at the positions L and by
\* y at the positions R.
JoinBlock(x, y, k, L, R) ==
    IF L # <<>> /\ R # <<>>
    THEN Flatten([a \in 1..Len(L) |->
           [b \in 1..Len(R) |->
              [key |-> k, row |-> CombineRow(x.cols, x.rows[L[a]], y.rows[R[b]])]]])
    ELSE IF L # <<>>
    THEN [a \in 1..Len(L) |-> [key |-> k, row |-> x.rows[L[a]]]]
    ELSE [b \in 1..Len(R) |-> [key |-> k, row |-> y.rows[R[b]]]]

\* The table with x's columns and the labelled rows `all`.
Keyed(x, all) ==
    [x EXCEPT !.index = [n \in 1..Len(all) |-> all[n].key],
              !.rows  = [n \in 1..Len(all) |-> all[n].row]]

\* x.combine_first(y) for two tables with the same columns (every window of
\* one call is read with the same names and usecols).  The two are aligned
\* on the outer join of their indexes: equal indexes are kept as they are;
\* otherwise the labels come out ascending, a label held by both tables
\* pairs each of its rows in x with each of its rows in y, and a label held
\* by one table keeps that table's rows.  An empty y leaves x as it is.
CombineFirst(x, y) ==
    IF NRows(y) = 0 THEN x
    ELSE IF x.index = y.index
    THEN [x EXCEPT !.rows = [i \in 1..NRows(x) |->
                                CombineRow(x.cols, x.rows[i], y.rows[i])]]
    ELSE Keyed(x, Flatten([n \in 1..Len(JoinKeys(x, y)) |->
                             JoinBlock(x, y, JoinKeys(x, y)[n],
                                       RowsAt(x, JoinKeys(x, y)[n]),
                                       RowsAt(y, JoinKeys(x, y)[n]))]))

\* if i.index.array[-1] > d.index.array[-1]: i = i[i.index < d.index.array[-1]]
\* for the older window w and the last label `end` of the accumulator.
Truncate(w, end) ==
    IF Last(w.index) > end
    THEN SelectRows(w, {n \in 1..NRows(w) : w.index[n] < end})
    ELSE w

\* The loop of combine_oftime_files over the older windows, newest first:
\* i is the position of the window to fold into the accumulator d.  Reading
\* the last label of an empty table raises IndexError.
RECURSIVE FoldWindows(_, _, _)
FoldWindows(d, tmp, i) ==
    IF i = 0 THEN [err |-> "none", df |-> d]
    ELSE IF NRows(tmp[i]) = 0 \/ NRows(d) = 0
    THEN [err |-> "IndexError", df |-> d]
    ELSE FoldWindows(CombineFirst(d, Truncate(tmp[i], Last(d.index))), tmp, i - 1)

\* self.data = d.reset_index(), reached when the loop r raised nothing.
ResetMerged(r) ==
    IF r.err = "none" THEN [err |-> "none", df |-> reset_index(r.df)]
    ELSE [err |-> r.err, df |-> EmptyFrame]

\* combine_oftime_files, from the parsed tables (indexed by time, oldest
\* window first, at least one) to self.data.
MergeTables(tmp) == ResetMerged(FoldWindows(Last(tmp), tmp, Len(tmp) - 1))

(***************************************************************************)
(* parsing.parse_of and parsing.dummy_columns.                             *)
(***************************************************************************)
DummyN == 99

\* dummy_columns(n): 'time', 'c0', ..., 'c{n-1}'.
dummy_columns(n) == <<"time">> \o [x \in 1..n |-> "c" \o ToString(x - 1)]

PosIn(s, c) == CHOOSE i \in DOMAIN s : s[i] = c

MaxOf(S) == CHOOSE x \in S : \A y \in S : y <= x

\* parse_of on a file whose data lines are `lines` (each the sequence of its
\* cells: comment lines are skipped and brackets are blanks, so a line is
\* its numbers).  Column i of the file gets names[i]; a name beyond the
\* file's columns is a column of NaN.  With usecols the columns named there
\* are kept, in the file's order, and pandas raises ParserError ("Too many
\* columns specified") when one of them lies beyond the file's columns.
\* Without usecols the files drawn here never hold more columns than names.
parse_of(lines, colnames, cols) ==
    LET w    == IF lines = <<>> THEN 0 ELSE MaxOf({Len(lines[i]) : i \in DOMAIN lines})
        kept == IF cols = None THEN colnames
                ELSE SelectSeq(colnames, LAMBDA c : c \in Range(cols))
    IN  IF cols # None /\ lines # <<>> /\ \E c \in Range(kept) : PosIn(colnames, c) > w
        THEN [err |-> "ParserError", df |-> EmptyFrame]
        ELSE [err |-> "none",
              df  |-> [cols    |-> kept,
                       idxname |-> "",
                       index   |-> [i \in 1..Len(lines) |-> i - 1],
                       rows    |-> [i \in 1..Len(lines) |->
                                      [c \in Range(kept) |->
                                         IF PosIn(colnames, c) <= Len(lines[i])
                                         THEN lines[i][PosIn(colnames, c)]
                                         ELSE NaN]]]]

(***************************************************************************)
(* The quantities (reader classes) and their declarations.                 *)
(***************************************************************************)
Kinds == {"forces", "waveBuoy", "rigidBodyState", "residuals", "time",
          "fieldMinMax", "vp", "actuatorDisk"}

ForceNames13 ==
    <<"time", "fxp", "fyp", "fzp", "fxv", "fyv", "fzv",
      "mxp", "myp", "mzp", "mxv", "myv", "mzv">>

ForceNames19 ==
    <<"time", "fxp", "fyp", "fzp", "fxv", "fyv", "fzv", "fxpor", "fypor", "fzpor",
      "mxp", "myp", "mzp", "mxv", "myv", "mzv", "mxpor", "mypor", "mzpor">>

RigidNames ==
    <<"time", "x", "y", "z", "roll", "pitch", "yaw",
      "vx", "vy", "vz", "vroll", "vpitch", "vyaw">>

FieldNames ==
    <<"time", "field", "min", "locationX(min)", "locationY(min)", "locationZ(min)",
      "processor(min)", "max", "locationX(max)", "locationY(max)", "locationZ(max)",
      "processor(max)">>

FieldUsecols == <<"time", "field", "min", "max">>

VpNames == <<"time", "vpx", "vpy", "vpz">>

VpUsecols == <<"time", "vpx">>

DiskNames ==
    <<"time", "thrust", "torque", "vp", "va", "n", "J", "FD",
      "alphacorrThrust", "alphacorrTorque", "fillgrade">>

DiskFallbackNames == <<"time", "thrust", "torque", "vp", "va", "n", "FD">>

\* OpenFOAMrigidBodyState's default for subtractInitialCoG.
subtractInitialCoG == TRUE

\* The names a reader passes to OpenFOAMpostProcessing.__init__ (None there
\* becomes dummy_columns()).
InitNames(k) ==
    CASE k = "rigidBodyState" -> RigidNames
      [] k = "fieldMinMax"    -> FieldNames
      [] k = "vp"             -> VpNames
      [] k = "actuatorDisk"   -> DiskNames
      [] OTHER                -> None

InitUsecols(k) ==
    CASE k = "fieldMinMax"  -> FieldUsecols
      [] k = "vp"           -> VpUsecols
      [] k = "actuatorDisk" -> DiskNames
      [] OTHER              -> None

\* SORT_ORDER: the class attribute, or what the reader's __init__ sets.
InitSortOrder(k) ==
    CASE k = "forces" ->
           [c \in {"time", "fx"} |-> IF c = "time" THEN -1 ELSE 0]
      [] k = "residuals" ->
           [c \in {"U", "Ux", "Uy", "Uz", "p", "p_rgh", "k", "omega", "time"} |->
              CASE c = "U" -> 0 [] c = "Ux" -> 1 [] c = "Uy" -> 2 [] c = "Uz" -> 3
                [] c = "p" -> 4 [] c = "p_rgh" -> 5 [] c = "k" -> 6
                [] c = "omega" -> 7 [] c = "time" -> -1]
      [] OTHER -> [c \in {"time"} |-> -1]

\* The readers whose __init__ takes tmin and tmax.
TakesTimeRange(k) == k \notin {"vp", "actuatorDisk"}

(***************************************************************************)
(* time_range and sort_fields.                                             *)
(***************************************************************************)
\* if self.tmin is not None: data = data[data['time'] > self.tmin]
AboveMin(f, lo) ==
    IF lo = None THEN f
    ELSE SelectRows(f, {i \in 1..NRows(f) : f.rows[i]["time"][1] > lo[1]})

\* if self.tmax is not None: data = data[data['time'] < self.tmax]
BelowMax(f, hi) ==
    IF hi = None THEN f
    ELSE SelectRows(f, {i \in 1..NRows(f) : f.rows[i]["time"][1] < hi[1]})

\* time_range: the rows strictly between tmin and tmax, each bound applied
\* when it is not None; data['time'] raises KeyError without that column.
time_range(f, lo, hi) ==
    IF (lo # None \/ hi # None) /\ ~HasCol(f, "time")
    THEN [err |-> "KeyError", df |-> f]
    ELSE [err |-> "none", df |-> BelowMax(AboveMin(f, lo), hi)]

\* s with x put behind every element whose rank is not above x's.
RECURSIVE InsertByRank(_, _, _)
InsertByRank(s, x, rank) ==
    IF s = <<>> THEN <<x>>
    ELSE IF rank[Last(s)] <= rank[x] THEN Append(s, x)
    ELSE Append(InsertByRank(SubSeq(s, 1, Len(s) - 1), x, rank), Last(s))

\* sorted(s, key=rank): stable.
RECURSIVE SortByRank(_, _)
SortByRank(s, rank) ==
    IF s = <<>> THEN <<>>
    ELSE InsertByRank(SortByRank(SubSeq(s, 1, Len(s) - 1), rank), Last(s), rank)

\* sort_fields: the columns in the order of their ranks; a column without a
\* rank raises KeyError in the sort key, which is swallowed, and the columns
\* stay as they are.
sort_fields(f, rank) ==
    IF \A c \in Range(f.cols) : c \in DOMAIN rank
    THEN [f EXCEPT !.cols = SortByRank(f.cols, rank)]
    ELSE f

(***************************************************************************)
(* Steps of the customize methods.                                         *)
(***************************************************************************)
\* dropna(how='all', axis=1): the columns that hold a value in some row.
dropna_cols(f) ==
    LET live == {c \in Range(f.cols) : \E i \in 1..NRows(f) : f.rows[i][c] # NaN}
    IN  [f EXCEPT !.cols = SelectSeq(f.cols, LAMBDA c : c \in live),
                  !.rows = [i \in 1..NRows(f) |-> [c \in live |-> f.rows[i][c]]]]

\* rename(columns=dict(zip(f.columns, to))): the i-th column gets to[i], the
\* columns beyond Len(to) keep their names.
rename_zip(f, to) ==
    LET new(i) == IF i <= Len(to) THEN to[i] ELSE f.cols[i]
    IN  [f EXCEPT !.cols = [i \in 1..Len(f.cols) |-> new(i)],
                  !.rows = [r \in 1..NRows(f) |->
                              [c \in {new(i) : i \in 1..Len(f.cols)} |->
                                 f.rows[r][f.cols[CHOOSE i \in 1..Len(f.cols) : new(i) = c]]]]]

\* data[c] = vals (one value per row): a new column goes last, an old one
\* is replaced.
SetColumn(f, c, vals) ==
    [f EXCEPT !.cols = IF HasCol(f, c) THEN f.cols ELSE Append(f.cols, c),
              !.rows = [i \in 1..NRows(f) |->
                          [x \in Range(f.cols) \cup {c} |->
                             IF x = c THEN vals[i] ELSE f.rows[i][x]]]]

DropColumns(f, gone) ==
    [f EXCEPT !.cols = SelectSeq(f.cols, LAMBDA c : c \notin gone),
              !.rows = [i \in 1..NRows(f) |->
                          [x \in Range(f.cols) \ gone |-> f.rows[i][x]]]]

CellAdd(a, b) == IF a = NaN \/ b = NaN THEN NaN ELSE Num(a[1] + b[1])

CellSub(a, b) == IF a = NaN \/ b = NaN THEN NaN ELSE Num(a[1] - b[1])

\* The mutant of derive_fx that takes the pressure part for the total.
derive_fx_pressure(f) ==
    IF HasCol(f, "fxp") /\ HasCol(f, "fxv")
    THEN SetColumn(f, "fx", [i \in 1..NRows(f) |-> f.rows[i]["fxp"]])
    ELSE f

\* The total force of OpenFOAMforces.customize: fx = fxp + fxv; a missing
\* column raises KeyError, which is swallowed.
derive_fx(f) ==
    IF HasCol(f, "fxp") /\ HasCol(f, "fxv")
    THEN SetColumn(f, "fx", [i \in 1..NRows(f) |->
                               CellAdd(f.rows[i]["fxp"], f.rows[i]["fxv"])])
    ELSE f

\* |Ux^2 + Uy^2 + Uz^2| / 3 of the row r.
MeanSquare(r) ==
    IF r["Ux"] = NaN \/ r["Uy"] = NaN \/ r["Uz"] = NaN THEN NaN
    ELSE <<r["Ux"][1] * r["Ux"][1] + r["Uy"][1] * r["Uy"][1]
             + r["Uz"][1] * r["Uz"][1], 3>>

\* The residual of OpenFOAMresiduals.customize: U = |Ux^2 + Uy^2 + Uz^2| / 3,
\* the three components dropped; a missing column raises KeyError, which is
\* swallowed.
derive_U(f) ==
    IF HasCol(f, "Ux") /\ HasCol(f, "Uy") /\ HasCol(f, "Uz")
    THEN DropColumns(SetColumn(f, "U", [i \in 1..NRows(f) |-> MeanSquare(f.rows[i])]),
                     {"Ux", "Uy", "Uz"})
    ELSE f

\* SORT_ORDER[usecols[i]] = i for i in 1..len(usecols)-1 (zero-based i).
AddRanks(rank, cols) ==
    [c \in DOMAIN rank \cup Range(Tail(cols)) |->
        IF c \in Range(Tail(cols)) THEN PosIn(cols, c) - 1 ELSE rank[c]]

(***************************************************************************)
(* The customize methods.  Each takes self.data, self.names, self.usecols, *)
(* SORT_ORDER, tmin and tmax and gives the fields as the method leaves     *)
(* them: err is the exception it raises ("none": it returns), pre is       *)
(* self.data on entry to time_range, ranged whether time_range returned.   *)
(***************************************************************************)
Raised(e, f, nm, uc, so) ==
    [data |-> f, names |-> nm, usecols |-> uc, so |-> so,
     err |-> e, pre |-> f, ranged |-> FALSE]

\* A customize after its time_range answered tr on the table f.
Ranged(tr, f, nm, uc, so, sorting) ==
    IF tr.err # "none" THEN Raised(tr.err, f, nm, uc, so)
    ELSE [data |-> IF sorting THEN sort_fields(tr.df, so) ELSE tr.df,
          names |-> nm, usecols |-> uc, so |-> so,
          err |-> "none", pre |-> f, ranged |-> TRUE]

\* The tail of a customize: time_range, then sort_fields when `sorting`.
RangeAndSort(f, nm, uc, so, lo, hi, sorting) ==
    Ranged(time_range(f, lo, hi), f, nm, uc, so, sorting)

\* OpenFOAMpostProcessing.customize: pass (OpenFOAMvp, OpenFOAMactuatorDisk).
customize_base(f, nm, uc, so, lo, hi) ==
    [data |-> f, names |-> nm, usecols |-> uc, so |-> so,
     err |-> "none", pre |-> f, ranged |-> FALSE]

\* OpenFOAMforces.customize on its first non-empty table, g the table after
\* dropna: names, usecols and SORT_ORDER are set and the columns renamed.
forces_first(g, so, lo, hi) ==
    RangeAndSort(derive_fx(rename_zip(g, ForceNames13)),
                 IF Len(g.cols) > 0 THEN ForceNames13 ELSE ForceNames19,
                 ForceNames13, AddRanks(so, ForceNames13), lo, hi, TRUE)

\* OpenFOAMforces.customize.  len(self.data.columns == 13) is the number of
\* columns, so the 13-name scheme is taken whenever there is a column.
customize_forces(f, nm, uc, so, lo, hi) ==
    IF ~IsEmpty(f) /\ uc = None
    THEN forces_first(dropna_cols(f), so, lo, hi)
    ELSE RangeAndSort(derive_fx(f), nm, uc, so, lo, hi, TRUE)

\* list(data)[2::2]: the columns at the zero-based positions 2, 4, ...
EverySecond(cols) ==
    SelectSeq(cols, LAMBDA c : PosIn(cols, c) >= 3 /\ (PosIn(cols, c) - 3) % 2 = 0)

\* The columns `cols` of g, in that order.
Loc(g, cols) ==
    [g EXCEPT !.cols = cols,
              !.rows = [i \in 1..NRows(g) |-> [c \in Range(cols) |-> g.rows[i][c]]]]

\* The names 'time', 'buoy0', ..., for n columns.
BuoyNames(n) == <<"time">> \o [i \in 1..(n - 1) |-> "buoy" \o ToString(i - 1)]

\* OpenFOAMwaveBuoy.customize after dropna, on the table g.
waveBuoy_select(g, nm, uc, so, lo, hi) ==
    IF ~HasCol(g, "time") THEN Raised("KeyError", g, nm, uc, so)
    ELSE RangeAndSort(
             rename_zip(Loc(g, <<"time">> \o EverySecond(g.cols)),
                        BuoyNames(1 + Len(EverySecond(g.cols)))),
             nm, uc, so, lo, hi, FALSE)

\* OpenFOAMwaveBuoy.customize: .loc[:, cols] raises KeyError when 'time' is
\* no column.
customize_waveBuoy(f, nm, uc, so, lo, hi) ==
    waveBuoy_select(dropna_cols(f), nm, uc, so, lo, hi)

\* self.data[dof] = self.data[dof] - self.data[dof].iloc[0]
Relative(g, dof) ==
    SetColumn(g, dof, [i \in 1..NRows(g) |->
                         CellSub(g.rows[i][dof], g.rows[1][dof])])

\* OpenFOAMrigidBodyState.customize: x, y, z relative to their first row.
customize_rigidBodyState(f, nm, uc, so, lo, hi) ==
    IF NRows(f) * Len(f.cols) # 0 /\ subtractInitialCoG
         /\ ~({"x", "y", "z"} \subseteq Range(f.cols))
    THEN Raised("KeyError", f, nm, uc, so)
    ELSE RangeAndSort(
             IF NRows(f) * Len(f.cols) # 0 /\ subtractInitialCoG
             THEN Relative(Relative(Relative(f, "x"), "y"), "z")
             ELSE f,
             nm, uc, so, lo, hi, FALSE)

\* The header line of the first window's file, '#' removed and split, its
\* first token replaced by 'time'.
SniffHeader(tokens) == <<"time">> \o Tail(tokens)

\* OpenFOAMresiduals.customize; `header` is line 2 of the first window's file.
customize_residuals(f, nm, uc, so, lo, hi, header) ==
    IF ~IsEmpty(f) /\ uc = None
    THEN RangeAndSort(derive_U(rename_zip(dropna_cols(f), SniffHeader(header))),
                      SniffHeader(header), SniffHeader(header), so, lo, hi, TRUE)
    ELSE RangeAndSort(derive_U(f), nm, uc, so, lo, hi, TRUE)

\* OpenFOAMtime.customize.
customize_time(f, nm, uc, so, lo, hi, header) ==
    IF ~IsEmpty(f) /\ uc = None
    THEN RangeAndSort(rename_zip(dropna_cols(f), SniffHeader(header)),
                      SniffHeader(header), SniffHeader(header), so, lo, hi, FALSE)
    ELSE RangeAndSort(f, nm, uc, so, lo, hi, FALSE)

\* Series.unique(): the values in the order of their first appearance.
RECURSIVE Unique(_)
Unique(s) ==
    IF s = <<>> THEN <<>>
    ELSE LET u == Unique(SubSeq(s, 1, Len(s) - 1))
         IN  IF Last(s) \in Range(u) THEN u ELSE Append(u, Last(s))

\* The columns of all parts, in order.
AllCols(parts) == Flatten([k \in 1..Len(parts) |-> parts[k].cols])

\* The part that holds column c.
Owner(parts, c) == CHOOSE k \in 1..Len(parts) : c \in Range(parts[k].cols)

\* The cell of table q at the label t, NaN when q lacks the label.
CellAt(q, t, c) ==
    IF \E i \in 1..NRows(q) : q.index[i] = t
    THEN q.rows[CHOOSE i \in 1..NRows(q) : q.index[i] = t][c]
    ELSE NaN

\* The parts side by side when their indexes are equal.
SideBySide(parts, cols) ==
    [cols |-> cols, idxname |-> "time", index |-> parts[1].index,
     rows |-> [i \in 1..NRows(parts[1]) |->
                 [c \in Range(cols) |-> parts[Owner(parts, c)].rows[i][c]]]]

\* The parts side by side, aligned on the labels.
Aligned(parts, cols, labels) ==
    [cols |-> cols, idxname |-> "time", index |-> labels,
     rows |-> [i \in 1..Len(labels) |->
                 [c \in Range(cols) |-> CellAt(parts[Owner(parts, c)], labels[i], c)]]]

\* pd.concat(parts, axis=1) of tables indexed by time: the labels of all
\* parts in the order of their first appearance, each part's columns side
\* by side, NaN where a part lacks the label.  A part with a repeated label
\* cannot be aligned (InvalidIndexError) unless all indexes are equal.
concat_columns(parts) ==
    IF \A k \in 1..Len(parts) : parts[k].index = parts[1].index
    THEN [err |-> "none", df |-> SideBySide(parts, AllCols(parts))]
    ELSE IF \E k \in 1..Len(parts) :
               Cardinality(Range(parts[k].index)) # Len(parts[k].index)
    THEN [err |-> "InvalidIndexError", df |-> EmptyFrame]
    ELSE [err |-> "none",
          df  |-> Aligned(parts, AllCols(parts),
                          Unique(Flatten([k \in 1..Len(parts) |-> parts[k].index])))]

\* The columns of q, each with '_' and the field's name appended.
Suffixed(q, field) ==
    rename_zip(q, [i \in 1..Len(q.cols) |-> q.cols[i] \o "_" \o field])

\* The block of one field: its rows, 'field' dropped, indexed by time.
FieldPart(f, field) ==
    Suffixed(set_index(DropColumns(SelectRows(f, {i \in 1..NRows(f) :
                                                    f.rows[i]["field"] = field}),
                                   {"field"}),
                       "time"),
             field[1])

\* self.data['time'] = self.data.index
TimeFromIndex(g) == SetColumn(g, "time", [i \in 1..NRows(g) |-> Num(g.index[i])])

\* OpenFOAMfieldMinMax.customize once pd.concat answered cc.
fieldMinMax_ranged(cc, f, nm, uc, so, lo, hi) ==
    IF cc.err # "none" THEN Raised(cc.err, f, nm, uc, so)
    ELSE RangeAndSort(TimeFromIndex(cc.df), nm, uc, so, lo, hi, FALSE)

\* OpenFOAMfieldMinMax.customize for the values `fields` of column 'field'.
fieldMinMax_concat(f, fields, nm, uc, so, lo, hi) ==
    IF fields = <<>> THEN Raised("ValueError", f, nm, uc, so)
    ELSE fieldMinMax_ranged(
             concat_columns([k \in 1..Len(fields) |-> FieldPart(f, fields[k])]),
             f, nm, uc, so, lo, hi)

\* OpenFOAMfieldMinMax.customize: one block of columns per value of 'field'.
\* data['field'] raises KeyError without that column; pd.concat of no
\* tables raises ValueError.
customize_fieldMinMax(f, nm, uc, so, lo, hi) ==
    IF ~HasCol(f, "field") THEN Raised("KeyError", f, nm, uc, so)
    ELSE fieldMinMax_concat(f, Unique(Column(f, "field")), nm, uc, so, lo, hi)

\* self.customize() of the reader class k.
customize(k, f, nm, uc, so, lo, hi, header) ==
    CASE k = "forces"         -> customize_forces(f, nm, uc, so, lo, hi)
      [] k = "waveBuoy"       -> customize_waveBuoy(f, nm, uc, so, lo, hi)
      [] k = "rigidBodyState" -> customize_rigidBodyState(f, nm, uc, so, lo, hi)
      [] k = "residuals"      -> customize_residuals(f, nm, uc, so, lo, hi, header)
      [] k = "time"           -> customize_time(f, nm, uc, so, lo, hi, header)
      [] k = "fieldMinMax"    -> customize_fieldMinMax(f, nm, uc, so, lo, hi)
      [] OTHER                -> customize_base(f, nm, uc, so, lo, hi)

(***************************************************************************)
(* The files of a case.  Every time directory of the pool holds the        *)
(* quantity's file.  The file of the directory named s holds MaxRows lines,*)
(* one per time s, s+1, ..., so the windows of neighbouring directories    *)
(* overlap; every line has `width` numbers, the time first, and each other *)
(* number tells its directory, time and column.                            *)
(***************************************************************************)
TimeDirPool == {<<"1">>, <<"2">>}

NoFile == [n |-> 0, mtime |-> 0]

FileRecords == [n : {MaxRows}, mtime : 1..MaxMtime]

\* The value of the 'field' column of a fieldMinMax file at time t.
FieldOf(t) == IF t % 2 = 1 THEN "p" ELSE "U"

FileLines(k, dir, n, w) ==
    [j \in 1..n |->
        LET t == Mantissa(dir) + j - 1
        IN  [c \in 1..w |->
                IF c = 1 THEN Num(t)
                ELSE IF k = "fieldMinMax" /\ c = 2 THEN <<FieldOf(t)>>
                ELSE Num(100 * Mantissa(dir) + 20 * t + c)]]

\* Line 2 of a residuals or time file: the solver's commented header.
Header(k) ==
    IF k = "residuals" THEN <<"Time", "Ux", "Uy", "Uz", "p">>
    ELSE <<"Time", "cpu", "clock">>

\* The widths drawn for the files of a quantity.
Widths(k) ==
    CASE k = "forces"         -> {3, 5, 14}
      [] k = "waveBuoy"       -> {5}
      [] k = "rigidBodyState" -> {13}
      [] k = "residuals"      -> {5}
      [] k = "time"           -> {3}
      [] k = "fieldMinMax"    -> {12}
      [] k = "vp"             -> {4}
      [] k = "actuatorDisk"   -> {5, 7, 11}

\* The values drawn for tmin and for tmax.
RangeChoices(k) == IF TakesTimeRange(k) THEN {None, <<2>>} ELSE {None}

(***************************************************************************)
(* combine_oftime_files and load_data.                                     *)
(***************************************************************************)
\* The least member of a non-empty set of numbers.
MinOf(S) == CHOOSE x \in S : \A y \in S : x <= y

\* combine_oftime_files once the loop over the windows answered m.
Stitched(current, m, dat, n) ==
    [mtime |-> current, up_to_date |-> FALSE,
     data |-> IF m.err = "none" THEN m.df ELSE dat,
     err |-> m.err, parsed |-> n]

\* combine_oftime_files on stale data: self.mtime is set, then the files
\* are parsed one by one (`tables` holds what parse_of answers for each) and
\* indexed by time; the first one that raises ends the call.
ParseWindows(current, tables, dat) ==
    IF \E i \in DOMAIN tables : tables[i].err # "none" \/ ~HasCol(tables[i].df, "time")
    THEN [mtime |-> current, up_to_date |-> FALSE, data |-> dat,
          err |-> IF tables[MinOf({i \in DOMAIN tables :
                                     \/ tables[i].err # "none"
                                     \/ ~HasCol(tables[i].df, "time")})].err # "none"
                  THEN "ParserError" ELSE "KeyError",
          parsed |-> MinOf({i \in DOMAIN tables :
                              \/ tables[i].err # "none"
                              \/ ~HasCol(tables[i].df, "time")})]
    ELSE Stitched(current,
                  MergeTables([i \in DOMAIN tables |-> set_index(tables[i].df, "time")]),
                  dat, Len(tables))

\* combine_oftime_files on the discovered directories `paths`: the fields
\* it leaves (mtime, up_to_date, data), the exception it raises, and the
\* number of files handed to parse_of.
combine_oftime_files(paths, fl, k, w, mt, utd, dat, nm, uc) ==
    IF paths = <<>>
    THEN [mtime |-> mt, up_to_date |-> utd, data |-> EmptyFrame,
          err |-> "none", parsed |-> 0]
    ELSE IF MaxOf({fl[x].mtime : x \in Range(paths)}) = mt
    THEN [mtime |-> mt, up_to_date |-> TRUE, data |-> dat,
          err |-> "none", parsed |-> 0]
    ELSE ParseWindows(MaxOf({fl[x].mtime : x \in Range(paths)}),
                      [i \in 1..Len(paths) |->
                         parse_of(FileLines(k, paths[i], fl[paths[i]].n, w), nm, uc)],
                      dat)

\* load_data left before customize: by exception e, or with up_to_date;
\* x holds the fields as combine_oftime_files leaves them.
NotCustomized(e, x, nm, uc, so, n) ==
    [mtime |-> x.mtime, up_to_date |-> x.up_to_date, data |-> x.data,
     names |-> nm, usecols |-> uc, so |-> so, err |-> e,
     parsed |-> x.parsed, customized |-> FALSE,
     pre |-> EmptyFrame, ranged |-> FALSE, nwin |-> n, inits |-> 0]

\* load_data after customize ended as z.
Customized(c, z, n) ==
    [mtime |-> c.mtime, up_to_date |-> c.up_to_date, data |-> z.data,
     names |-> z.names, usecols |-> z.usecols, so |-> z.so, err |-> z.err,
     parsed |-> c.parsed, customized |-> TRUE,
     pre |-> z.pre, ranged |-> z.ranged, nwin |-> n, inits |-> 0]

\* load_data once combine_oftime_files ended as c: customize unless
\* up_to_date.
Combined(c, k, nm, uc, so, lo, hi, n) ==
    IF c.err # "none" \/ c.up_to_date
    THEN NotCustomized(c.err, c, nm, uc, so, n)
    ELSE Customized(c, customize(k, c.data, nm, uc, so, lo, hi, Header(k)), n)

\* load_data once list_time_dirs has answered lt: combine_oftime_files, then
\* customize unless up_to_date.
LoadWith(lt, fl, k, w, mt, utd, dat, nm, uc, so, lo, hi) ==
    IF lt.err # "none"
    THEN NotCustomized(lt.err,
                       [mtime |-> mt, up_to_date |-> utd, data |-> dat, parsed |-> 0],
                       nm, uc, so, Len(lt.paths))
    ELSE Combined(combine_oftime_files(lt.paths, fl, k, w, mt, utd, dat, nm, uc),
                  k, nm, uc, so, lo, hi, Len(lt.paths))

\* load_data: its outcomes, one per answer of list_time_dirs.
load_data(ents, fl, k, w, mt, utd, dat, nm, uc, so, lo, hi) ==
    {LoadWith(lt, fl, k, w, mt, utd, dat, nm, uc, so, lo, hi) :
        lt \in list_time_dirs(ents)}

\* OpenFOAMpostProcessing.__init__ with the given names and usecols, run as
\* the reader's nth: mtime, up_to_date and data are set anew, then
\* load_data.
base_init(ents, fl, k, w, nm, uc, lo, hi, nth) ==
    {[r EXCEPT !.inits = nth] :
        r \in load_data(ents, fl, k, w, 0, FALSE, EmptyFrame,
                        IF nm = None THEN dummy_columns(DummyN) ELSE nm, uc,
                        InitSortOrder(k), lo, hi)}

\* The mutant of reader_init whose fallback skips the second __init__ and
\* loads with the fields the failed attempt left.
reader_init_stale(ents, fl, k, w, lo, hi) ==
    UNION {IF k = "actuatorDisk" /\ r.err = "ParserError"
           THEN {[q EXCEPT !.inits = 2] :
                   q \in load_data(ents, fl, k, w, r.mtime, r.up_to_date, r.data,
                                   DiskFallbackNames, DiskFallbackNames,
                                   InitSortOrder(k), lo, hi)}
           ELSE {r} :
             r \in base_init(ents, fl, k, w, InitNames(k), InitUsecols(k), lo, hi, 1)}

\* The reader's __init__; OpenFOAMactuatorDisk tries its 11 columns and, on
\* ParserError, its 7 columns.
reader_init(ents, fl, k, w, lo, hi) ==
    UNION {IF k = "actuatorDisk" /\ r.err = "ParserError"
           THEN base_init(ents, fl, k, w, DiskFallbackNames, DiskFallbackNames,
                          lo, hi, 2)
           ELSE {r} :
             r \in base_init(ents, fl, k, w, InitNames(k), InitUsecols(k), lo, hi, 1)}

(***************************************************************************)
(* parsing.filter_time_and_columns.                                        *)
(***************************************************************************)
\* The mutant of filter_rows with strict bounds.
filter_rows_strict(f, lo, hi) ==
    SelectRows(f, {i \in 1..NRows(f) :
                     /\ lo # None => f.rows[i]["time"][1] > lo[1]
                     /\ hi # None => f.rows[i]["time"][1] < hi[1]})

\* df.loc[df.time >= time_start], then df.loc[df.time <= time_end].
filter_rows(f, lo, hi) ==
    SelectRows(f, {i \in 1..NRows(f) :
                     /\ lo # None => f.rows[i]["time"][1] >= lo[1]
                     /\ hi # None => f.rows[i]["time"][1] <= hi[1]})

\* filter_time_and_columns(df, time_start, time_end, data_subset), for a df
\* with a 'time' column.
filter_time_and_columns(f, lo, hi, subset) ==
    LET g == set_index(filter_rows(f, lo, hi), "time")
    IN  IF Len(subset) > 0
        THEN LET keep == SelectSeq(g.cols, LAMBDA c : c \in Range(subset))
             IN  [g EXCEPT !.cols = keep,
                           !.rows = [i \in 1..NRows(g) |->
                                       [c \in Range(keep) |-> g.rows[i][c]]]]
        ELSE g

(***************************************************************************)
(* The tables MergeSpec draws: at most MaxRows rows each, the times        *)
(* non-decreasing in 1..MaxTime.  The j-th row of the w-th window holds    *)
(* 10*w + j in its one column, so a row of the result tells the window it  *)
(* comes from.                                                             *)
(***************************************************************************)
TimeSeqs ==
    {s \in UNION {[1..n -> 1..MaxTime] : n \in 0..MaxRows} : NonDecreasing(s)}

\* The table of window w with the times s; with `gap` its first row holds NaN.
WindowTable(w, s, gap) ==
    [cols    |-> <<"c0">>,
     idxname |-> "time",
     index   |-> s,
     rows    |-> [j \in 1..Len(s) |->
                    [c \in {"c0"} |-> IF gap /\ j = 1 THEN NaN ELSE Num(10 * w + j)]]]

NotMerged == [err |-> "notcalled", df |-> EmptyFrame]

NotCalled == [err |-> "notcalled", paths |-> <<>>]

NotFiltered == [cols |-> <<>>, idxname |-> "notcalled", index |-> <<>>, rows |-> <<>>]

NoCall ==
    [op |-> "none", nwin |-> 0, parsed |-> 0, customized |-> FALSE,
     ranged |-> FALSE, quiet |-> FALSE, same |-> FALSE,
     prevop |-> "none", prevnwin |-> 0, inits |-> 0]

listvars == <<l>>

mergevars == <<tmp_data, merged>>

filtervars == <<df, time_start, time_end, data_subset, filtered>>

configvars == <<width, kind, tmin, tmax>>

readervars ==
    <<pc, mtime, up_to_date, data, names, usecols, SORT_ORDER, err, last, unfiltered>>

vars ==
    <<entries, files, quiet, listvars, mergevars, filtervars, configvars, readervars>>

\* The parts of the state a specification does not use stay as they start.
ListIdle == l = NotCalled

MergeIdle == tmp_data = <<>> /\ merged = NotMerged

FilterIdle ==
    /\ df = EmptyFrame
    /\ time_start = None
    /\ time_end = None
    /\ data_subset = None
    /\ filtered = NotFiltered

\* The fields of a reader before its __init__ has run.
ReaderNew(k) ==
    /\ pc = "new"
    /\ mtime = 0
    /\ up_to_date = FALSE
    /\ data = EmptyFrame
    /\ names = None
    /\ usecols = None
    /\ SORT_ORDER = InitSortOrder(k)
    /\ err = "none"
    /\ last = NoCall
    /\ quiet = FALSE
    /\ unfiltered = EmptyFrame

ReaderIdle ==
    /\ files = [x \in TimeDirPool |-> NoFile]
    /\ width = 0
    /\ kind = "vp"
    /\ tmin = None
    /\ tmax = None
    /\ ReaderNew("vp")

(***************************************************************************)
(* MergeSpec: the merge on every list of at most MaxWindows tables.        *)
(***************************************************************************)
MergeInit ==
    /\ tmp_data = <<>>
    /\ merged = NotMerged
    /\ entries = {}
    /\ ListIdle /\ FilterIdle /\ ReaderIdle

\* One more window is discovered and parsed.  NaN cells are drawn for the
\* second window only.
AppendWindow ==
    /\ merged = NotMerged
    /\ Len(tmp_data) < MaxWindows
    /\ \E s \in TimeSeqs, gap \in BOOLEAN :
          /\ gap => (Len(tmp_data) = 1 /\ Len(s) > 0)
          /\ tmp_data' = Append(tmp_data, WindowTable(Len(tmp_data) + 1, s, gap))
    /\ UNCHANGED <<merged, entries, files, quiet, listvars, filtervars,
                   configvars, readervars>>

Combine ==
    /\ merged = NotMerged
    /\ Len(tmp_data) >= 1
    /\ merged' = MergeTables(tmp_data)
    /\ UNCHANGED <<tmp_data, entries, files, quiet, listvars, filtervars,
                   configvars, readervars>>

MergeNext == AppendWindow \/ Combine

MergeSpec == MergeInit /\ [][MergeNext]_vars

(***************************************************************************)
(* DirSpec: list_time_dirs on every directory of at most MaxEntries names. *)
(***************************************************************************)
DirInit ==
    /\ entries = {}
    /\ l = NotCalled
    /\ MergeIdle /\ FilterIdle /\ ReaderIdle

\* The environment creates an entry in the directory.
AddEntry ==
    /\ l = NotCalled
    /\ Cardinality(entries) < MaxEntries
    /\ \E x \in AllNames \ entries : entries' = entries \cup {x}
    /\ UNCHANGED <<l, files, quiet, mergevars, filtervars, configvars, readervars>>

ListTimeDirsCall ==
    /\ l = NotCalled
    /\ \E r \in list_time_dirs(entries) : l' = r
    /\ UNCHANGED <<entries, files, quiet, mergevars, filtervars, configvars, readervars>>

DirNext == AddEntry \/ ListTimeDirsCall

DirSpec == DirInit /\ [][DirNext]_vars

(***************************************************************************)
(* FilterSpec: filter_time_and_columns on every table of at most MaxRows   *)
(* rows with times in 1..MaxTime in any order; column a of the j-th row    *)
(* holds j, so a row of the result tells the row it comes from.            *)
(***************************************************************************)
FilterTable(s) ==
    [cols    |-> <<"time", "a", "b">>,
     idxname |-> "",
     index   |-> [j \in 1..Len(s) |-> j - 1],
     rows    |-> [j \in 1..Len(s) |->
                    [c \in {"time", "a", "b"} |->
                        IF c = "time" THEN Num(s[j])
                        ELSE IF c = "a" THEN Num(j) ELSE Num(10 + j)]]]

OptTimes == {None} \cup {<<t>> : t \in 1..MaxTime}

FilterInit ==
    /\ df \in {FilterTable(s) : s \in UNION {[1..n -> 1..MaxTime] : n \in 0..MaxRows}}
    /\ time_start \in OptTimes
    /\ time_end \in OptTimes
    /\ data_subset \in {None, <<"b">>, <<"b", "zz">>}
    /\ filtered = NotFiltered
    /\ entries = {}
    /\ ListIdle /\ MergeIdle /\ ReaderIdle

FilterCall ==
    /\ filtered = NotFiltered
    /\ filtered' = filter_time_and_columns(df, time_start, time_end, data_subset)
    /\ UNCHANGED <<df, time_start, time_end, data_subset, entries, files, quiet,
                   listvars, mergevars, configvars, readervars>>

FilterNext == FilterCall

FilterSpec == FilterInit /\ [][FilterNext]_vars

(***************************************************************************)
(* Spec: one reader over a case whose files change.                        *)
(***************************************************************************)
Init ==
    /\ entries = {}
    /\ files = [x \in TimeDirPool |-> NoFile]
    /\ kind \in Kinds
    /\ width \in Widths(kind)
    /\ tmin \in RangeChoices(kind)
    /\ tmax \in RangeChoices(kind)
    /\ ReaderNew(kind)
    /\ ListIdle /\ MergeIdle /\ FilterIdle

\* The solver (or the user) writes the file of a time directory, creating
\* the directory when it is not there; any modification time may result.
WriteFile ==
    /\ pc # "failed"
    /\ \E x \in TimeDirPool, f \in FileRecords :
          /\ x \notin entries \/ files[x] # f
          /\ entries' = entries \cup {x}
          /\ files' = [files EXCEPT ![x] = f]
    /\ quiet' = FALSE
    /\ UNCHANGED <<listvars, mergevars, filtervars, configvars, readervars>>

\* A time directory is removed.
RemoveDir ==
    /\ pc # "failed"
    /\ \E x \in entries :
          /\ entries' = entries \ {x}
          /\ files' = [files EXCEPT ![x] = NoFile]
    /\ quiet' = FALSE
    /\ UNCHANGED <<listvars, mergevars, filtervars, configvars, readervars>>

\* The fields of the reader after a call that ended as r.
Leaves(r, op) ==
    /\ mtime' = r.mtime
    /\ up_to_date' = r.up_to_date
    /\ data' = r.data
    /\ names' = r.names
    /\ usecols' = r.usecols
    /\ SORT_ORDER' = r.so
    /\ err' = r.err
    /\ unfiltered' = IF r.ranged THEN r.pre ELSE unfiltered
    /\ last' = [op |-> op, nwin |-> r.nwin, parsed |-> r.parsed,
                customized |-> r.customized, ranged |-> r.ranged,
                quiet |-> quiet, same |-> (r.data = data),
                prevop |-> last.op, prevnwin |-> last.nwin, inits |-> r.inits]
    /\ quiet' = (r.err = "none")

\* The reader is constructed: __init__ ends with load_data; an exception
\* leaves no reader.
Construct ==
    /\ pc = "new"
    /\ \E r \in reader_init(entries, files, kind, width, tmin, tmax) :
          /\ Leaves(r, "init")
          /\ pc' = IF r.err = "none" THEN "ready" ELSE "failed"
    /\ UNCHANGED <<entries, files, listvars, mergevars, filtervars, configvars>>

\* get_data: load_data, then self.data is returned.
GetData ==
    /\ pc = "ready"
    /\ \E r \in load_data(entries, files, kind, width, mtime, up_to_date, data,
                          names, usecols, SORT_ORDER, tmin, tmax) :
          Leaves(r, "get_data")
    /\ UNCHANGED <<pc, entries, files, listvars, mergevars, filtervars, configvars>>

Next == WriteFile \/ RemoveDir \/ Construct \/ GetData

Spec == Init /\ [][Next]_vars

(***************************************************************************)
(* RestartSpec: Spec for the readers of RestartKinds, with the solver also *)
(* leaving files that hold the commented header and no data line yet, as   *)
(* it does when a run starts or restarts.                                  *)
(***************************************************************************)
RestartKinds == {"vp", "fieldMinMax"}

RestartInit == Init /\ kind \in RestartKinds

\* The solver creates (or truncates) the file of a time directory: the
\* header is written, no data line.
WriteHeaderOnly ==
    /\ pc # "failed"
    /\ \E x \in TimeDirPool, m \in 1..MaxMtime :
          /\ x \notin entries \/ files[x] # [n |-> 0, mtime |-> m]
          /\ entries' = entries \cup {x}
          /\ files' = [files EXCEPT ![x] = [n |-> 0, mtime |-> m]]
    /\ quiet' = FALSE
    /\ UNCHANGED <<listvars, mergevars, filtervars, configvars, readervars>>

RestartNext == WriteFile \/ WriteHeaderOnly \/ RemoveDir \/ Construct \/ GetData

RestartSpec == RestartInit /\ [][RestartNext]_vars

(***************************************************************************)
(* Properties of the merge (MergeSpec).                                    *)
(***************************************************************************)
\* C1: for two windows A (earlier) and B (later) with a0 < b0 <= a1 <= b1,
\* every row of the merged series with time < b0 carries A's values and every
\* row with time >= b0 carries B's values, so no row of A at a time >= b0
\* survives.  A cell 10*w + j comes from window w; the windows taken here
\* hold a number in every cell.
C1_OverlapResolution ==
    (/\ merged.err = "none"
     /\ Len(tmp_data) = 2
     /\ NRows(tmp_data[1]) > 0 /\ NRows(tmp_data[2]) > 0
     /\ \A n \in 1..NRows(tmp_data[2]) : tmp_data[2].rows[n]["c0"] # NaN
     /\ tmp_data[1].index[1] < tmp_data[2].index[1]
     /\ tmp_data[2].index[1] <= Last(tmp_data[1].index)
     /\ Last(tmp_data[1].index) <= Last(tmp_data[2].index))
    => \A i \in 1..NRows(merged.df) :
          LET t == merged.df.rows[i]["time"][1]
              c == merged.df.rows[i]["c0"]
          IN  c # NaN /\ c[1] \div 10 = (IF t < tmp_data[2].index[1] THEN 1 ELSE 2)

\* C4 as claimed: after a merge of windows whose raw tables are each in
\* non-decreasing time order, the times of the merged series are strictly
\* increasing.
C4_StrictFromNonDecreasing ==
    (/\ merged.err = "none"
     /\ \A w \in DOMAIN tmp_data : NonDecreasing(tmp_data[w].index))
    => StrictlyIncreasing(Times(merged.df))

\* C4 as amended: after a merge of windows whose raw tables are each in
\* strictly increasing time order, the times of the merged series are
\* strictly increasing, so no time value occurs twice.
C4_StrictFromStrict ==
    (/\ merged.err = "none"
     /\ \A w \in DOMAIN tmp_data : StrictlyIncreasing(tmp_data[w].index))
    => StrictlyIncreasing(Times(merged.df))

\* Two overlapping windows without repeated times were merged, the older one
\* reaching past the newer one's end, and rows of both are in the result.
C4_Witness ==
    /\ merged.err = "none"
    /\ Len(tmp_data) = 2
    /\ \A w \in DOMAIN tmp_data :
          NRows(tmp_data[w]) = 2 /\ StrictlyIncreasing(tmp_data[w].index)
    /\ tmp_data[1].index[1] < tmp_data[2].index[1]
    /\ tmp_data[2].index[1] <= Last(tmp_data[1].index)
    /\ NRows(merged.df) >= 3

(***************************************************************************)
(* Properties of list_time_dirs (DirSpec).                                 *)
(***************************************************************************)
\* C6: list_time_dirs returns the matched names ascending by numeric value,
\* whatever their lexicographic order, and raises nothing when every name
\* in the directory is a number.
C6_NumericOrder ==
    /\ (l # NotCalled /\ l.err = "none") =>
          /\ \A i, j \in DOMAIN l.paths : i < j => FloatLeq(l.paths[i], l.paths[j])
          /\ Range(l.paths) = {x \in entries : GlobMatch(x)}
          /\ Len(l.paths) = Cardinality({x \in entries : GlobMatch(x)})
    /\ (l # NotCalled /\ \A x \in entries : IsFloat(x)) => l.err = "none"

\* Two names came back whose numeric order is not their order as strings.
C6_Witness ==
    /\ l # NotCalled
    /\ l.err = "none"
    /\ Len(l.paths) = 2
    /\ FloatLess(l.paths[1], l.paths[2])
    /\ ~LexLeq(l.paths[1], l.paths[2])

\* C7: list_time_dirs raises no error and returns only names that parse as
\* a number; a name that starts with a digit but is no number is left out.
C7_OnlyNumbersNoError ==
    l # NotCalled => (l.err = "none" /\ \A x \in Range(l.paths) : IsFloat(x))

(***************************************************************************)
(* Properties of filter_time_and_columns (FilterSpec).                     *)
(***************************************************************************)
\* C5: the result holds exactly the rows of df with time_start <= time <=
\* time_end (each bound applied when given), in df's order; time is the row
\* key and no column.
C5_FilterExact ==
    filtered # NotFiltered =>
      LET inside(j) ==
              /\ time_start # None => df.rows[j]["time"][1] >= time_start[1]
              /\ time_end # None => df.rows[j]["time"][1] <= time_end[1]
          kept == SelectSeq([j \in 1..NRows(df) |-> j], inside)
      IN  /\ filtered.idxname = "time"
          /\ ~HasCol(filtered, "time")
          /\ HasCol(filtered, "b")
          /\ Len(filtered.index) = Len(kept)
          /\ NRows(filtered) = Len(kept)
          /\ \A k \in 1..Len(kept) :
                /\ filtered.index[k] = df.rows[kept[k]]["time"][1]
                /\ \A c \in Range(filtered.cols) :
                      filtered.rows[k][c] = df.rows[kept[k]][c]

\* A call with both bounds given kept a row at time_start and one at
\* time_end and dropped another row.
C5_Witness ==
    /\ filtered # NotFiltered
    /\ time_start # None
    /\ time_end # None
    /\ \E k \in 1..NRows(filtered) : filtered.index[k] = time_start[1]
    /\ \E k \in 1..NRows(filtered) : filtered.index[k] = time_end[1]
    /\ NRows(filtered) < NRows(df)

(***************************************************************************)
(* Properties of the readers (Spec).                                       *)
(***************************************************************************)
\* C2: a get_data that follows a get_data, with no window or file changed in
\* between, returns the same data, parses no file and does not run customize.
C2_CacheIdempotent ==
    (last.op = "get_data" /\ last.prevop = "get_data" /\ last.quiet)
    => (err = "none" /\ last.same /\ last.parsed = 0 /\ ~last.customized)

\* C3: constructing any reader, or calling get_data, on a base directory
\* without time directories raises no error and leaves an empty series.
C3_EmptyCase ==
    (last.op # "none" /\ last.nwin = 0) => (err = "none" /\ IsEmpty(data))

\* C8: after OpenFOAMforces.customize the data has a column fx exactly when
\* it has fxp and fxv, fx is fxp + fxv in every row, and customize raises
\* nothing on data read from files.
C8_ForceDerivation ==
    (kind = "forces" /\ last.customized) =>
      /\ HasCol(data, "fx") <=> (HasCol(data, "fxp") /\ HasCol(data, "fxv"))
      /\ HasCol(data, "fx") =>
            \A i \in 1..NRows(data) :
               /\ data.rows[i]["fx"] # NaN
               /\ data.rows[i]["fx"][1] =
                    data.rows[i]["fxp"][1] + data.rows[i]["fxv"][1]
      /\ last.nwin > 0 => err = "none"

\* A forces reader returned rows that carry fxp, fxv and fx.
C8_Witness ==
    /\ kind = "forces"
    /\ last.customized
    /\ err = "none"
    /\ HasCol(data, "fx")
    /\ NRows(data) > 0

\* C9: with tmin or tmax set, time_range keeps exactly the rows with
\* tmin <= time <= tmax, each bound applied when given.
C9_InclusiveRange ==
    (last.ranged /\ err = "none" /\ (tmin # None \/ tmax # None)) =>
      Times(data) =
        SelectSeq(Times(unfiltered),
                  LAMBDA t : /\ tmin # None => t >= tmin[1]
                             /\ tmax # None => t <= tmax[1])

\* C10: after a call that discovers no time window the reader's mtime is
\* zero, and the next call that discovers windows parses every file and
\* runs customize.
C10_EmptyResetsMtime ==
    /\ (last.op # "none" /\ last.nwin = 0 /\ err = "none") => mtime = 0
    /\ (/\ last.op = "get_data" /\ last.prevop # "none"
        /\ last.prevnwin = 0 /\ last.nwin > 0 /\ err = "none")
       => (last.parsed = last.nwin /\ last.customized)

\* C11: after a customize that ends with sort_fields (forces, residuals) the
\* columns that have a rank in SORT_ORDER come first, ascending by rank, and
\* the columns without a rank follow in the order they had before the sort
\* (time_range, which runs in between, leaves the columns as they are).
C11_CanonicalOrder ==
    (kind \in {"forces", "residuals"} /\ last.customized /\ last.ranged
       /\ err = "none") =>
      LET ranked == SelectSeq(data.cols, LAMBDA c : c \in DOMAIN SORT_ORDER)
      IN  /\ data.cols =
                ranked \o SelectSeq(unfiltered.cols,
                                    LAMBDA c : c \notin DOMAIN SORT_ORDER)
          /\ Range(data.cols) = Range(unfiltered.cols)
          /\ \A i, j \in DOMAIN ranked :
                i < j => SORT_ORDER[ranked[i]] <= SORT_ORDER[ranked[j]]

\* C12: OpenFOAMactuatorDisk's constructor runs the base __init__ with the
\* 11-column scheme; exactly when a file fails to parse under it (the file
\* has fewer than 11 columns) it runs it once more with the 7-column
\* scheme, from a fresh cache state, so every file is parsed again; when
\* that fails too (fewer than 7 columns) the ParserError reaches the caller.
\* There is no third run.
C12_FallbackOnce ==
    (kind = "actuatorDisk" /\ last.op = "init") =>
      /\ last.inits \in {1, 2}
      /\ last.inits = 2 <=> (last.nwin > 0 /\ width < Len(DiskNames))
      /\ pc = (IF err = "none" THEN "ready" ELSE "failed")
      /\ last.inits = 1 =>
            /\ names = DiskNames /\ usecols = DiskNames
            /\ err = "none"
            /\ last.nwin > 0 => (data.cols = DiskNames /\ NRows(data) > 0)
      /\ last.inits = 2 =>
            /\ names = DiskFallbackNames /\ usecols = DiskFallbackNames
            /\ IF width >= Len(DiskFallbackNames)
               THEN /\ err = "none"
                    /\ last.parsed = last.nwin
                    /\ last.customized
                    /\ data.cols = DiskFallbackNames
                    /\ NRows(data) > 0
               ELSE err = "ParserError"

\* An actuatorDisk reader was constructed by the second run: its data is
\* read under the 7-column scheme.
C12_Witness ==
    /\ kind = "actuatorDisk"
    /\ last.op = "init"
    /\ last.inits = 2
    /\ err = "none"
    /\ pc = "ready"
    /\ data.cols = DiskFallbackNames
    /\ NRows(data) > 0

(***************************************************************************)
(* Properties of a failing reload (RestartSpec).                           *)
(***************************************************************************)
\* C13: a get_data call that finds time windows and fails while
\* re-assembling them (a file fails to parse, the merge or customize
\* raises) leaves the reader's mtime as it was before the call.
C13_FailureKeepsMtime ==
    [][(/\ pc = "ready"
        /\ files' = files /\ entries' = entries
        /\ last'.op = "get_data" /\ last'.nwin > 0
        /\ err' # "none")
       => mtime' = mtime]_vars

=============================================================================
